---- MODULE Spec2Model ----
(***************************************************************************)
(* Recall resolution flow: SafetyScreen (parent) driving RecallDetailModal *)
(* (orchestrator) and its three step components; ActionGuideScreen, the    *)
(* stand-alone checklist screen.                                           *)
(*                                                                         *)
(* React scheduling assumed by the model:                                  *)
(*  - an event handler and the re-render it causes are one step;           *)
(*  - a useEffect callback runs after the render that changed one of its   *)
(*    dependencies has been committed, and before any further event or     *)
(*    timer callback is processed;                                         *)
(*  - a step component handles events only while it is the rendered        *)
(*    current step (the 200 ms exit animation is not modelled);            *)
(*  - a step component's local state is created when it is mounted and     *)
(*    dropped when it is unmounted.                                        *)
(***************************************************************************)
EXTENDS Integers, Sequences, FiniteSets, TLC

\* ---- bounds ----
MaxSessions == 2     \* sessions opened in one behaviour
MaxNoPresses == 2    \* presses of "No, I don't have this" in one behaviour
MaxClock == 1        \* ticks of the wall clock
TicksPerMinute == 2  \* clock ticks that share one displayed minute
MaxPendingShares == 1 \* share() promises not yet settled
MaxTrace == 4        \* toggles applied to both checklists side by side
MaxNavTimers == 3    \* 200 ms navigation timers pending at once
MaxMessages == 5     \* user messages sent to the assistant
MaxActions == 4      \* action steps of the simulated recall

\* ---- program constants ----
Recalls == {"1", "2"}
NoRecall == "null"
Steps == {1, 2, 3}
StepIds == {1, 2, 3}
totalSteps == 3
Step3Props == {"recall", "onClose"}
OnCloseWithSuccessProvided == TRUE
Sessions == 1..MaxSessions
AgStepIds == {"step1", "step2", "step3"}
ShareOutcomes == {"shared", "aborted", "failed", "copied", "copyFailed"}
minSwipeDistance == 50
NoTouch == -1
\* clientX values a touch can report
TouchXs == {0, 30, 100, 160}
\* texts of the input field: empty, blank, not blank
InputTexts == {"", " ", "hi"}
\* texts of an action step of the simulation panel
ActionTexts == {"", "step"}
NavScreens == {"home", "safety", "assistant", "settings"}
Screens == NavScreens \cup {"do-you-have-this", "action-guide"}

\* recallItems: every recall of the list carries four actions
NumActions(recall) == 4

VARIABLES
    selectedRecall,     \* SafetyScreen: recall shown in the modal, or null
    showSuccessBanner,  \* SafetyScreen: "Recall resolved" banner
    successTimestamp,   \* SafetyScreen: time text shown in the banner
    currentStep,        \* RecallDetailModal
    slideDirection,     \* RecallDetailModal
    effectPending,      \* RecallDetailModal: the [isOpen] effect has to run
    checkedSteps,       \* RecallDetailStep2 (<<>> while it is not mounted)
    pendingClose,       \* 300 ms close timers pending, by scheduling session
    now,                \* wall clock
    openMissing,        \* a parent passes isOpen = true with recall = null
    pendingShares,      \* RecallDetailStep3: share() promises not settled
    agCheckedSteps,     \* ActionGuideScreen
    showModelGuide,     \* ActionGuideScreen
    showCompletionOverlay, \* ActionGuideScreen
    agTimer,            \* ActionGuideScreen: 500 ms overlay timer pending
    ackedClosed,        \* history: a session was closed with items checked
    lockTrace,          \* history: toggles applied to both checklists
    session,            \* history: number of sessions opened so far
    naToasts,           \* history: "not applicable" toasts, by session
    naCloseCalls,       \* history: timer-driven onClose calls, by session
    resolvedLog,        \* history: calls of onCloseWithSuccess
    lastEvent,          \* history: the event handled last
    currentScreen,      \* App
    isTransitioning,    \* App
    appSlideDirection,  \* App: slideDirection
    navTimers,          \* App: targets of the pending 200 ms timers
    agCallbacks,        \* history: props called by the last finish press
    bannerTimer,        \* SafetyScreen: 3 s banner timer pending
    currentImageIndex,  \* RecallDetailStep1
    touchStart,         \* RecallDetailStep1 (NoTouch for null)
    touchEnd,           \* RecallDetailStep1 (NoTouch for null)
    inputValue,         \* AIAssistantScreen
    isTyping,           \* AIAssistantScreen
    aiTimers,           \* AIAssistantScreen: 2 s response timers pending
    userMessages,       \* AIAssistantScreen: messages of sender 'user'
    aiMessages,         \* AIAssistantScreen: messages of sender 'ai' added
    simOpen,            \* DataSimulationPanel: isOpen
    simActions,         \* DataSimulationPanel: simulationData.actions
    simPreviewed        \* history: lengths of the lists handed to onPreview

appVars == <<currentScreen, isTransitioning, appSlideDirection, navTimers,
            agCallbacks>>
carouselVars == <<currentImageIndex, touchStart, touchEnd>>
aiVars == <<inputValue, isTyping, aiTimers, userMessages, aiMessages>>
simVars == <<simOpen, simActions, simPreviewed>>
otherVars == <<appVars, carouselVars, aiVars, simVars>>
restVars == <<lockTrace, otherVars, bannerTimer>>

vars == <<selectedRecall, showSuccessBanner, successTimestamp, currentStep,
          slideDirection, effectPending, checkedSteps, pendingClose, now,
          session, naToasts, naCloseCalls, resolvedLog, lastEvent,
          openMissing, pendingShares, agCheckedSteps, showModelGuide,
          showCompletionOverlay, agTimer, ackedClosed, restVars>>

progVars == <<selectedRecall, showSuccessBanner, successTimestamp, currentStep,
              slideDirection, effectPending, checkedSteps, pendingClose, now,
              session, naToasts, naCloseCalls, resolvedLog>>

parentVars == <<selectedRecall, showSuccessBanner, successTimestamp>>
histVars == <<session, naToasts, naCloseCalls, resolvedLog>>
sideVars == <<openMissing, pendingShares, agCheckedSteps, showModelGuide,
              showCompletionOverlay, agTimer, ackedClosed, restVars>>
agVars == <<agCheckedSteps, showModelGuide, showCompletionOverlay, agTimer>>
modalVars == <<selectedRecall, showSuccessBanner, successTimestamp,
               currentStep, slideDirection, effectPending, checkedSteps,
               pendingClose, now, session, naToasts, naCloseCalls,
               resolvedLog, openMissing, pendingShares, ackedClosed>>
nonAppVars == <<modalVars, lockTrace, bannerTimer, carouselVars, aiVars,
               simVars>>

\* ---- derived values ----
recallPresent == selectedRecall # NoRecall

\* SafetyScreen passes isOpen={selectedRecall !== null}
isOpen == recallPresent \/ openMissing

\* if (!recall) return null;  then one step per value of currentStep
DialogRendered == recallPresent /\ isOpen /\ ~effectPending

Step1Rendered == DialogRendered /\ currentStep = 1
Step2Rendered == DialogRendered /\ currentStep = 2
Step3Rendered == DialogRendered /\ currentStep = 3

includes(arr, x) == \E i \in 1..Len(arr) : arr[i] = x

formattedTime(t) == t \div TicksPerMinute

\* ---- RecallDetailStep2 ----
\* useState<number[]>([]): the checklist of a freshly mounted Step 2
initialCheckedStepsCached == IF ackedClosed THEN <<2>> ELSE <<>>

initialCheckedSteps == <<>>

\* the fixed 3-step checklist; recall.actions is not read
stepsPerAction(recall) == 1..NumActions(recall)

steps(recall) == StepIds

allStepsCompleteInOrder == checkedSteps = <<1, 2, 3>>

allStepsComplete == Len(checkedSteps) = totalSteps

\* un-checking one item clears the whole list
toggleStepReset(prev, stepId) ==
    IF includes(prev, stepId)
    THEN <<>>
    ELSE Append(prev, stepId)

toggleStep(prev, stepId) ==
    IF includes(prev, stepId)
    THEN SelectSeq(prev, LAMBDA id : id # stepId)
    ELSE Append(prev, stepId)

\* ---- RecallDetailModal handlers ----
handleStep2Complete ==
    /\ slideDirection' = "forward"
    /\ currentStep' = 3
    /\ checkedSteps' = <<>>
    /\ UNCHANGED <<parentVars, effectPending, pendingClose, now, histVars>>

handleBackToStep1 ==
    /\ slideDirection' = "backward"
    /\ currentStep' = 1
    /\ checkedSteps' = <<>>
    /\ UNCHANGED <<parentVars, effectPending, pendingClose, now, histVars>>

handleBackToStep2 ==
    /\ slideDirection' = "backward"
    /\ currentStep' = 2
    /\ checkedSteps' = initialCheckedSteps
    /\ UNCHANGED <<parentVars, effectPending, pendingClose, now, histVars>>

handleStep1ConfirmSkip(hasProduct) ==
    IF hasProduct
    THEN /\ slideDirection' = "forward"
         /\ currentStep' = 3
         /\ checkedSteps' = <<>>
         /\ UNCHANGED <<parentVars, effectPending, pendingClose, now, histVars>>
    ELSE /\ naToasts' = [naToasts EXCEPT ![session] = @ + 1]
         /\ pendingClose' = [pendingClose EXCEPT ![session] = @ + 1]
         /\ UNCHANGED <<parentVars, currentStep, slideDirection, effectPending,
                        checkedSteps, now, session, naCloseCalls, resolvedLog>>

handleStep1Confirm(hasProduct) ==
    IF hasProduct
    THEN /\ slideDirection' = "forward"
         /\ currentStep' = 2
         /\ checkedSteps' = initialCheckedSteps
         /\ UNCHANGED <<parentVars, effectPending, pendingClose, now, histVars>>
    ELSE /\ naToasts' = [naToasts EXCEPT ![session] = @ + 1]
         /\ pendingClose' = [pendingClose EXCEPT ![session] = @ + 1]
         /\ UNCHANGED <<parentVars, currentStep, slideDirection, effectPending,
                        checkedSteps, now, session, naCloseCalls, resolvedLog>>

handleMarkAsDoneNoGate ==
    handleStep2Complete

handleMarkAsDone ==
    IF allStepsComplete
    THEN handleStep2Complete
    ELSE UNCHANGED progVars

\* ---- SafetyScreen handlers ----
\* the banner effect without its cleanup
bannerEffectNoCleanup ==
    bannerTimer' = (bannerTimer \/ showSuccessBanner')

\* useEffect on [showSuccessBanner]: the cleanup clears the timer, the
\* callback sets a new one if the banner is shown
bannerEffect ==
    bannerTimer' = IF showSuccessBanner' = showSuccessBanner
                   THEN bannerTimer
                   ELSE showSuccessBanner'

onCloseBanner ==
    /\ selectedRecall' = NoRecall
    /\ showSuccessBanner' = TRUE
    /\ effectPending' = isOpen
    /\ checkedSteps' = <<>>
    /\ UNCHANGED <<successTimestamp, currentStep, slideDirection>>

\* onClose={() => setSelectedRecall(null)}
onClose ==
    /\ selectedRecall' = NoRecall
    /\ effectPending' = isOpen
    /\ checkedSteps' = <<>>
    /\ UNCHANGED <<showSuccessBanner, successTimestamp, currentStep,
                   slideDirection>>

handleRecallCompleted ==
    /\ successTimestamp' = formattedTime(now)
    /\ showSuccessBanner' = TRUE
    /\ selectedRecall' = NoRecall
    /\ effectPending' = isOpen
    /\ checkedSteps' = <<>>
    /\ UNCHANGED <<currentStep, slideDirection>>

\* RecallDetailModal: the onClose handed to RecallDetailStep3
step3OnClose ==
    /\ IF OnCloseWithSuccessProvided
       THEN /\ handleRecallCompleted
            /\ resolvedLog' = Append(resolvedLog,
                   [session |-> session, recall |-> selectedRecall,
                    step |-> currentStep, args |-> <<>>])
       ELSE /\ onClose
            /\ UNCHANGED resolvedLog
    /\ UNCHANGED <<pendingClose, now, session, naToasts, naCloseCalls>>

\* ---- events ----
OpenRecall ==
    /\ lastEvent' = "open"
    /\ ~isOpen
    /\ ~effectPending
    /\ session < MaxSessions
    /\ \E r \in Recalls : selectedRecall' = r
    /\ session' = session + 1
    /\ effectPending' = TRUE
    /\ checkedSteps' = <<>>
    /\ UNCHANGED <<showSuccessBanner, successTimestamp, currentStep,
                   slideDirection, pendingClose, now, naToasts, naCloseCalls,
                   resolvedLog>>

\* useEffect(() => { if (isOpen) {...} }, [isOpen])
    /\ UNCHANGED sideVars
IsOpenEffect ==
    /\ lastEvent' = "effect"
    /\ effectPending
    /\ effectPending' = FALSE
    /\ IF isOpen
       THEN /\ currentStep' = 1
            /\ slideDirection' = "forward"
       ELSE UNCHANGED <<currentStep, slideDirection>>
    /\ checkedSteps' = <<>>
    /\ UNCHANGED <<parentVars, pendingClose, now, histVars>>
    /\ UNCHANGED sideVars

Step1Yes ==
    /\ lastEvent' = "yes"
    /\ Step1Rendered
    /\ handleStep1Confirm(TRUE)
    /\ UNCHANGED sideVars

RECURSIVE sumTo(_, _)
sumTo(f, n) == IF n = 0 THEN 0 ELSE f[n] + sumTo(f, n - 1)

\* presses of "No" so far, over all sessions
noPresses == sumTo(naToasts, MaxSessions)

Step1No ==
    /\ lastEvent' = "no"
    /\ Step1Rendered
    /\ noPresses < MaxNoPresses
    /\ handleStep1Confirm(FALSE)
    /\ UNCHANGED sideVars

CloseTimerFires ==
    /\ lastEvent' = "closeTimer"
    /\ ~effectPending
    /\ \E s \in Sessions :
         /\ pendingClose[s] > 0
         /\ pendingClose' = [pendingClose EXCEPT ![s] = @ - 1]
         /\ naCloseCalls' = [naCloseCalls EXCEPT ![s] = @ + 1]
    /\ onClose
    /\ UNCHANGED <<now, session, naToasts, resolvedLog>>
    /\ openMissing' = FALSE
    /\ ackedClosed' = (ackedClosed \/ checkedSteps # <<>>)
    /\ UNCHANGED <<pendingShares, agVars, restVars>>

ToggleStep ==
    /\ lastEvent' = "toggle"
    /\ Step2Rendered
    /\ \E stepId \in steps(selectedRecall) :
          checkedSteps' = toggleStep(checkedSteps, stepId)
    /\ UNCHANGED <<parentVars, currentStep, slideDirection, effectPending,
                   pendingClose, now, histVars>>
    /\ UNCHANGED sideVars

MarkAsDone ==
    /\ lastEvent' = "markAsDone"
    /\ Step2Rendered
    /\ handleMarkAsDone
    /\ UNCHANGED sideVars

Step2Back ==
    /\ lastEvent' = IF checkedSteps # <<>> /\ ~allStepsComplete
                     THEN "backPartial" ELSE "back"
    /\ Step2Rendered
    /\ handleBackToStep1
    /\ UNCHANGED sideVars

Step3Finish ==
    /\ lastEvent' = "finish"
    /\ Step3Rendered
    /\ step3OnClose
    /\ bannerEffect
    /\ UNCHANGED <<openMissing, pendingShares, agVars, ackedClosed, lockTrace,
                   otherVars>>

ExternalClose ==
    /\ lastEvent' = "externalClose"
    /\ DialogRendered
    /\ onClose
    /\ UNCHANGED <<pendingClose, now, histVars>>

\* auto-dismiss timer and the banner's dismiss button
    /\ ackedClosed' = (ackedClosed \/ checkedSteps # <<>>)
    /\ UNCHANGED <<openMissing, pendingShares, agVars, restVars>>
\* the dismiss button of the banner
DismissBanner ==
    /\ lastEvent' = "dismissBanner"
    /\ showSuccessBanner
    /\ ~effectPending
    /\ showSuccessBanner' = FALSE
    /\ bannerEffect
    /\ UNCHANGED <<selectedRecall, successTimestamp, currentStep,
                   slideDirection, effectPending, checkedSteps, pendingClose,
                   now, histVars>>
    /\ UNCHANGED <<openMissing, pendingShares, agVars, ackedClosed, lockTrace,
                   otherVars>>

\* the 3 s timer of the banner effect
BannerTimerFires ==
    /\ lastEvent' = "bannerTimer"
    /\ bannerTimer
    /\ ~effectPending
    /\ showSuccessBanner' = FALSE
    /\ bannerEffect
    /\ UNCHANGED <<selectedRecall, successTimestamp, currentStep,
                   slideDirection, effectPending, checkedSteps, pendingClose,
                   now, histVars>>
    /\ UNCHANGED <<openMissing, pendingShares, agVars, ackedClosed, lockTrace,
                   otherVars>>

Tick ==
    /\ lastEvent' = "tick"
    /\ now < MaxClock
    /\ now' = now + 1
    /\ UNCHANGED <<parentVars, currentStep, slideDirection, effectPending,
                   checkedSteps, pendingClose, histVars>>
    /\ UNCHANGED sideVars

\* the back() affordance of Step 3: exists only if the component takes onBack
Step3Back ==
    /\ lastEvent' = "back3"
    /\ Step3Rendered
    /\ "onBack" \in Step3Props
    /\ handleBackToStep2
    /\ UNCHANGED sideVars

\* the orchestrator's onComplete handler called without the Step 2 filter
Step2OnCompleteDirect ==
    /\ lastEvent' = "onComplete"
    /\ Step2Rendered
    /\ handleStep2Complete
    /\ UNCHANGED sideVars

\* ---- external actions of the flow ----
\* RecallDetailStep2.handleSaveDetails: a toast, nothing else
handleSaveDetails ==
    UNCHANGED progVars

SaveDetails ==
    /\ lastEvent' = "save"
    /\ Step2Rendered
    /\ handleSaveDetails
    /\ UNCHANGED sideVars

\* RecallDetailStep3.handleShare up to its await
handleShare ==
    /\ pendingShares' = pendingShares + 1
    /\ UNCHANGED <<progVars, openMissing, agVars, ackedClosed, restVars>>

Share ==
    /\ lastEvent' = "share"
    /\ Step3Rendered
    /\ pendingShares < MaxPendingShares
    /\ handleShare

\* a failed share propagates and closes the flow
shareSettledThrows(outcome) ==
    /\ pendingShares' = pendingShares - 1
    /\ IF outcome \in {"failed", "copyFailed"}
       THEN onClose
       ELSE UNCHANGED <<selectedRecall, effectPending, checkedSteps,
                        showSuccessBanner, successTimestamp, currentStep,
                        slideDirection>>
    /\ UNCHANGED <<pendingClose, now, histVars, openMissing, agVars,
                   ackedClosed, restVars>>

\* handleShare after its await: a toast (or a console message), nothing else
shareSettled(outcome) ==
    /\ pendingShares' = pendingShares - 1
    /\ UNCHANGED <<progVars, openMissing, agVars, ackedClosed, restVars>>

ShareSettles ==
    /\ pendingShares > 0
    /\ ~effectPending
    /\ \E outcome \in ShareOutcomes :
         /\ lastEvent' = outcome
         /\ shareSettled(outcome)

\* ---- a parent that opens the modal without a recall record ----
OpenMissing ==
    /\ lastEvent' = "openMissing"
    /\ ~isOpen
    /\ ~effectPending
    /\ session < MaxSessions
    /\ openMissing' = TRUE
    /\ session' = session + 1
    /\ effectPending' = TRUE
    /\ UNCHANGED <<parentVars, currentStep, slideDirection, checkedSteps,
                   pendingClose, now, naToasts, naCloseCalls, resolvedLog,
                   pendingShares, agVars, ackedClosed, restVars>>

CloseMissing ==
    /\ lastEvent' = "closeMissing"
    /\ openMissing
    /\ ~effectPending
    /\ openMissing' = FALSE
    /\ effectPending' = TRUE
    /\ UNCHANGED <<parentVars, currentStep, slideDirection, checkedSteps,
                   pendingClose, now, histVars, pendingShares, agVars,
                   ackedClosed, restVars>>

\* ---- ActionGuideScreen ----
agAllComplete == Len(agCheckedSteps) = Cardinality(AgStepIds)

agToggleStepNoLock(prev, stepId) ==
    IF includes(prev, stepId)
    THEN SelectSeq(prev, LAMBDA id : id # stepId)
    ELSE Append(prev, stepId)

agToggleStep(prev, stepId) ==
    IF stepId = "step1"
    THEN prev
    ELSE IF includes(prev, stepId)
         THEN SelectSeq(prev, LAMBDA id : id # stepId)
         ELSE Append(prev, stepId)

\* toggleStep and the effect on [checkedSteps.length]: the old timer is
\* cleared and a new one is set if all steps are checked
agApplyToggle(stepId) ==
    /\ agCheckedSteps' = agToggleStep(agCheckedSteps, stepId)
    /\ agTimer' = IF Len(agCheckedSteps') = Len(agCheckedSteps)
                  THEN agTimer
                  ELSE Len(agCheckedSteps') = Cardinality(AgStepIds)
    /\ UNCHANGED <<showModelGuide, showCompletionOverlay>>

AgEvent(stepId) ==
    CASE stepId = "step1" -> "agToggle1"
      [] stepId = "step2" -> "agToggle2"
      [] stepId = "step3" -> "agToggle3"

AgToggle ==
    /\ \E stepId \in AgStepIds :
         /\ lastEvent' = AgEvent(stepId)
         /\ agApplyToggle(stepId)
    /\ UNCHANGED <<modalVars, restVars>>

AgToggleModelGuide ==
    /\ lastEvent' = "agModelGuide"
    /\ showModelGuide' = ~showModelGuide
    /\ UNCHANGED <<agCheckedSteps, showCompletionOverlay, agTimer, modalVars,
                   restVars>>

AgOverlayTimer ==
    /\ lastEvent' = "agOverlayTimer"
    /\ agTimer
    /\ agTimer' = FALSE
    /\ showCompletionOverlay' = TRUE
    /\ UNCHANGED <<agCheckedSteps, showModelGuide, modalVars, restVars>>

AgBackdropClick ==
    /\ lastEvent' = "agBackdrop"
    /\ agAllComplete
    /\ showCompletionOverlay' = FALSE
    /\ UNCHANGED <<agCheckedSteps, showModelGuide, agTimer, modalVars,
                   restVars>>

\* ---- both checklists driven by the same toggles ----
AgIdOf(stepId) ==
    CASE stepId = 1 -> "step1"
      [] stepId = 2 -> "step2"
      [] stepId = 3 -> "step3"

LockstepToggle ==
    /\ lastEvent' = "toggle"
    /\ Step2Rendered
    /\ Len(lockTrace) < MaxTrace
    /\ \E stepId \in StepIds :
         /\ checkedSteps' = toggleStep(checkedSteps, stepId)
         /\ agApplyToggle(AgIdOf(stepId))
         /\ lockTrace' = Append(lockTrace, stepId)
    /\ UNCHANGED <<otherVars, bannerTimer>>
    /\ UNCHANGED <<parentVars, currentStep, slideDirection, effectPending,
                   pendingClose, now, histVars, openMissing, pendingShares,
                   ackedClosed>>

\* ---- RecallDetailStep1: image carousel ----
\* recall '1' carries three images, the other recalls only the default one
recallImages(recall) == IF recall = "1" THEN 3 ELSE 1

\* images = recall.images.slice(0, 3) or the single default image
imagesLength(recall) ==
    IF recallImages(recall) > 3 THEN 3 ELSE recallImages(recall)

carouselFrame ==
    UNCHANGED <<modalVars, agVars, lockTrace, appVars, bannerTimer, aiVars,
                simVars>>

TouchStart ==
    /\ lastEvent' = "touchStart"
    /\ Step1Rendered
    /\ \E x \in TouchXs :
         /\ touchEnd' = NoTouch
         /\ touchStart' = x
    /\ UNCHANGED currentImageIndex
    /\ carouselFrame

TouchMove ==
    /\ lastEvent' = "touchMove"
    /\ Step1Rendered
    /\ touchStart # NoTouch
    /\ \E x \in TouchXs : touchEnd' = x
    /\ UNCHANGED <<currentImageIndex, touchStart>>
    /\ carouselFrame

\* !touchStart || !touchEnd: null and 0 are both falsy
falsy(x) == x = NoTouch \/ x = 0

onTouchEnd ==
    IF falsy(touchStart) \/ falsy(touchEnd)
    THEN UNCHANGED currentImageIndex
    ELSE LET distance == touchStart - touchEnd
             isLeftSwipe == distance > minSwipeDistance
             isRightSwipe == distance < -minSwipeDistance
         IN  currentImageIndex' =
               IF isLeftSwipe
                  /\ currentImageIndex < imagesLength(selectedRecall) - 1
               THEN currentImageIndex + 1
               ELSE IF isRightSwipe /\ currentImageIndex > 0
                    THEN currentImageIndex - 1
                    ELSE currentImageIndex

TouchEnd ==
    /\ lastEvent' = "touchEnd"
    /\ Step1Rendered
    /\ touchStart # NoTouch
    /\ onTouchEnd
    /\ UNCHANGED <<touchStart, touchEnd>>
    /\ carouselFrame

\* pagination dots, rendered if there is more than one image
DotClick ==
    /\ lastEvent' = "dot"
    /\ Step1Rendered
    /\ imagesLength(selectedRecall) > 1
    /\ \E index \in 0..(imagesLength(selectedRecall) - 1) :
         currentImageIndex' = index
    /\ UNCHANGED <<touchStart, touchEnd>>
    /\ carouselFrame

\* ---- AIAssistantScreen ----
aiFrame ==
    UNCHANGED <<modalVars, agVars, lockTrace, appVars, bannerTimer,
                carouselVars, simVars>>

\* content.trim() is not empty
nonBlank(content) == content \notin {"", " "}

\* handleSendMessage(content?): content || inputValue
handleSendMessage(content) ==
    LET messageContent == IF content # "" THEN content ELSE inputValue
    IN  IF ~nonBlank(messageContent)
        THEN UNCHANGED aiVars
        ELSE /\ userMessages' = userMessages + 1
             /\ inputValue' = ""
             /\ isTyping' = TRUE
             /\ aiTimers' = aiTimers + 1
             /\ UNCHANGED aiMessages

\* the input field, disabled while isTyping
AiInputChange ==
    /\ lastEvent' = "aiInput"
    /\ ~isTyping
    /\ \E text \in InputTexts : inputValue' = text
    /\ UNCHANGED <<isTyping, aiTimers, userMessages, aiMessages>>
    /\ aiFrame

\* Enter in the input field
AiEnter ==
    /\ lastEvent' = "aiEnter"
    /\ ~isTyping
    /\ userMessages < MaxMessages
    /\ handleSendMessage("")
    /\ aiFrame

\* the send button, disabled while the input is blank or isTyping
AiSendButton ==
    /\ lastEvent' = "aiSend"
    /\ nonBlank(inputValue)
    /\ ~isTyping
    /\ userMessages < MaxMessages
    /\ handleSendMessage("")
    /\ aiFrame

\* a quick-suggestion button or a suggestion chip of a message
AiSuggestion ==
    /\ lastEvent' = "aiSuggestion"
    /\ userMessages < MaxMessages
    /\ handleSendMessage("hi")
    /\ aiFrame

\* the 2 s timer of one message
AiResponseTimer ==
    /\ lastEvent' = "aiResponse"
    /\ aiTimers > 0
    /\ aiTimers' = aiTimers - 1
    /\ aiMessages' = aiMessages + 1
    /\ isTyping' = FALSE
    /\ UNCHANGED <<inputValue, userMessages>>
    /\ aiFrame

\* ---- DataSimulationPanel ----
simFrame ==
    UNCHANGED <<modalVars, agVars, lockTrace, appVars, bannerTimer,
                carouselVars, aiVars>>

defaultActions == <<"step", "step", "step">>

\* the remove button is offered for every action
removeOfferedAlways == Len(simActions) >= 1

\* simulationData.actions.length > 1 && <Button ... handleRemoveAction>
removeOffered == Len(simActions) > 1

SimOpenChange ==
    /\ lastEvent' = "simOpenChange"
    /\ simOpen' = ~simOpen
    /\ UNCHANGED <<simActions, simPreviewed>>
    /\ simFrame

SimReset ==
    /\ lastEvent' = "simReset"
    /\ simOpen
    /\ simActions' = defaultActions
    /\ UNCHANGED <<simOpen, simPreviewed>>
    /\ simFrame

SimAddAction ==
    /\ lastEvent' = "simAdd"
    /\ simOpen
    /\ Len(simActions) < MaxActions
    /\ simActions' = Append(simActions, "")
    /\ UNCHANGED <<simOpen, simPreviewed>>
    /\ simFrame

SimRemoveAction ==
    /\ lastEvent' = "simRemove"
    /\ simOpen
    /\ removeOffered
    /\ \E index \in 1..Len(simActions) :
         simActions' = [i \in 1..(Len(simActions) - 1) |->
                           IF i < index THEN simActions[i]
                                        ELSE simActions[i + 1]]
    /\ UNCHANGED <<simOpen, simPreviewed>>
    /\ simFrame

SimActionChange ==
    /\ lastEvent' = "simEdit"
    /\ simOpen
    /\ \E index \in 1..Len(simActions), value \in ActionTexts :
         simActions' = [simActions EXCEPT ![index] = value]
    /\ UNCHANGED <<simOpen, simPreviewed>>
    /\ simFrame

SimPreview ==
    /\ lastEvent' = "simPreview"
    /\ simOpen
    /\ simPreviewed' = simPreviewed \cup {Len(simActions)}
    /\ simOpen' = FALSE
    /\ UNCHANGED simActions
    /\ simFrame

\* ---- App ----
\* ActionGuideScreen is mounted while currentScreen = 'action-guide'; its
\* state is created on mount and its timer cleared on unmount
setCurrentScreen(screen) ==
    /\ currentScreen' = screen
    /\ IF screen # currentScreen /\ "action-guide" \in {screen, currentScreen}
       THEN /\ agCheckedSteps' = <<"step1">>
            /\ showModelGuide' = FALSE
            /\ showCompletionOverlay' = FALSE
            /\ agTimer' = FALSE
       ELSE UNCHANGED agVars

\* every call made by one handler reads the isTransitioning of the render
\* the handler was created in
\* navigateToScreen, called by one event handler once for each entry of
\* calls = <<screen, direction>>, ...
navigateToScreen(calls) ==
    IF isTransitioning \/ calls = <<>>
    THEN UNCHANGED <<isTransitioning, appSlideDirection, navTimers>>
    ELSE /\ isTransitioning' = TRUE
         /\ appSlideDirection' = calls[Len(calls)][2]
         /\ navTimers' = navTimers \o [i \in 1..Len(calls) |-> calls[i][1]]

NavTimerFires ==
    /\ lastEvent' = "navTimer"
    /\ navTimers # <<>>
    /\ setCurrentScreen(Head(navTimers))
    /\ appSlideDirection' = "null"
    /\ isTransitioning' = FALSE
    /\ navTimers' = Tail(navTimers)
    /\ UNCHANGED <<nonAppVars, agCallbacks>>

NavBarClick ==
    /\ lastEvent' = "navBar"
    /\ \E item \in NavScreens : setCurrentScreen(item)
    /\ UNCHANGED <<nonAppVars, isTransitioning, appSlideDirection,
                   navTimers, agCallbacks>>

SafetyNavigateToDoYouHaveThis ==
    /\ lastEvent' = "toDoYouHaveThis"
    /\ currentScreen = "safety"
    /\ Len(navTimers) < MaxNavTimers
    /\ navigateToScreen(<<<<"do-you-have-this", "left">>>>)
    /\ UNCHANGED <<nonAppVars, agVars, currentScreen, agCallbacks>>

DyhtYes ==
    /\ lastEvent' = "dyhtYes"
    /\ currentScreen = "do-you-have-this"
    /\ Len(navTimers) < MaxNavTimers
    /\ navigateToScreen(<<<<"action-guide", "left">>>>)
    /\ UNCHANGED <<nonAppVars, agVars, currentScreen, agCallbacks>>

DyhtClose ==
    /\ lastEvent' = "dyhtClose"
    /\ currentScreen = "do-you-have-this"
    /\ Len(navTimers) < MaxNavTimers
    /\ navigateToScreen(<<<<"safety", "right">>>>)
    /\ UNCHANGED <<nonAppVars, agVars, currentScreen, agCallbacks>>

\* ---- ActionGuideScreen under App ----
agMounted == currentScreen = "action-guide"

AppAgToggle == agMounted /\ AgToggle
AppAgToggleModelGuide == agMounted /\ AgToggleModelGuide
AppAgOverlayTimer == agMounted /\ AgOverlayTimer
AppAgBackdropClick == agMounted /\ AgBackdropClick

AgClose ==
    /\ lastEvent' = "agClose"
    /\ agMounted
    /\ Len(navTimers) < MaxNavTimers
    /\ agCallbacks' = <<"onClose">>
    /\ navigateToScreen(<<<<"safety", "right">>>>)
    /\ UNCHANGED <<nonAppVars, agVars, currentScreen>>

\* "Back to Safety Center" without the onClose call
agFinishNoClose ==
    /\ showCompletionOverlay' = FALSE
    /\ agCallbacks' = <<"onResolved">>
    /\ navigateToScreen(<<<<"safety", "right">>>>)

\* "Back to Safety Center": setShowCompletionOverlay(false); onResolved();
\* onClose()
agFinish ==
    /\ showCompletionOverlay' = FALSE
    /\ agCallbacks' = <<"onResolved", "onClose">>
    /\ navigateToScreen(<<<<"safety", "right">>, <<"safety", "right">>>>)

AgFinish ==
    /\ lastEvent' = "agFinish"
    /\ agMounted
    /\ agAllComplete
    /\ Len(navTimers) + 2 <= MaxNavTimers
    /\ agFinish
    /\ UNCHANGED <<nonAppVars, agCheckedSteps, showModelGuide,
                   agTimer, currentScreen>>

\* App as constructed
InitApp ==
    /\ currentScreen = "safety"
    /\ isTransitioning = FALSE
    /\ appSlideDirection = "null"
    /\ navTimers = <<>>
    /\ agCallbacks = <<>>

InitOther ==
    /\ InitApp
    /\ currentImageIndex = 0
    /\ touchStart = NoTouch
    /\ touchEnd = NoTouch
    /\ inputValue = ""
    /\ isTyping = FALSE
    /\ aiTimers = 0
    /\ userMessages = 0
    /\ aiMessages = 0
    /\ simOpen = FALSE
    /\ simActions = defaultActions
    /\ simPreviewed = {}
    /\ bannerTimer = FALSE

Init ==
    /\ InitOther
    /\ selectedRecall = NoRecall
    /\ showSuccessBanner = FALSE
    /\ successTimestamp = -1
    /\ currentStep = 1
    /\ slideDirection = "forward"
    /\ effectPending = FALSE
    /\ checkedSteps = <<>>
    /\ pendingClose = [s \in Sessions |-> 0]
    /\ now = 0
    /\ session = 0
    /\ naToasts = [s \in Sessions |-> 0]
    /\ naCloseCalls = [s \in Sessions |-> 0]
    /\ resolvedLog = <<>>
    /\ lastEvent = "init"
    /\ openMissing = FALSE
    /\ pendingShares = 0
    /\ agCheckedSteps = <<"step1">>
    /\ showModelGuide = FALSE
    /\ showCompletionOverlay = FALSE
    /\ agTimer = FALSE
    /\ ackedClosed = FALSE
    /\ lockTrace = <<>>

Next ==
    \/ OpenRecall
    \/ IsOpenEffect
    \/ Step1Yes
    \/ Step1No
    \/ CloseTimerFires
    \/ ToggleStep
    \/ MarkAsDone
    \/ Step2Back
    \/ Step3Finish
    \/ ExternalClose
    \/ DismissBanner
    \/ BannerTimerFires
    \/ Tick
    \/ SaveDetails
    \/ Share
    \/ ShareSettles

Spec == Init /\ [][Next]_vars

NextOrchestrator ==
    \/ Next
    \/ Step2OnCompleteDirect

SpecOrchestrator == Init /\ [][NextOrchestrator]_vars

\* the path of the flow to finish(), external close and the banner; the
\* events left out neither read nor write the banner or its timer
NextBanner ==
    \/ OpenRecall
    \/ IsOpenEffect
    \/ Step1Yes
    \/ ToggleStep
    \/ MarkAsDone
    \/ Step2Back
    \/ Step3Finish
    \/ ExternalClose
    \/ DismissBanner
    \/ BannerTimerFires
    \/ Tick

\* effects and timers are run by the browser once they are due
SpecLive ==
    /\ Init
    /\ [][NextBanner]_vars
    /\ WF_vars(IsOpenEffect)
    /\ WF_vars(BannerTimerFires)

\* the modal under a parent that may open it without a record
NextMissingRecord ==
    \/ Next
    \/ OpenMissing
    \/ CloseMissing

SpecMissingRecord == Init /\ [][NextMissingRecord]_vars

\* ActionGuideScreen, mounted
NextActionGuide ==
    \/ AgToggle
    \/ AgToggleModelGuide
    \/ AgOverlayTimer
    \/ AgBackdropClick

SpecActionGuide == Init /\ [][NextActionGuide]_vars

\* App with the two screens of the recall flow
NextApp ==
    \/ NavBarClick
    \/ SafetyNavigateToDoYouHaveThis
    \/ DyhtYes
    \/ DyhtClose
    \/ NavTimerFires
    \/ AppAgToggle
    \/ AppAgToggleModelGuide
    \/ AppAgOverlayTimer
    \/ AppAgBackdropClick
    \/ AgClose
    \/ AgFinish

SpecApp == Init /\ [][NextApp]_vars

\* Step 2 of the modal, freshly entered, next to a freshly mounted
\* ActionGuideScreen
InitLockstep ==
    /\ InitOther
    /\ selectedRecall \in Recalls
    /\ showSuccessBanner = FALSE
    /\ successTimestamp = -1
    /\ currentStep = 2
    /\ slideDirection = "forward"
    /\ effectPending = FALSE
    /\ checkedSteps = initialCheckedSteps
    /\ pendingClose = [s \in Sessions |-> 0]
    /\ now = 0
    /\ session = 1
    /\ naToasts = [s \in Sessions |-> 0]
    /\ naCloseCalls = [s \in Sessions |-> 0]
    /\ resolvedLog = <<>>
    /\ lastEvent = "yes"
    /\ openMissing = FALSE
    /\ pendingShares = 0
    /\ agCheckedSteps = <<"step1">>
    /\ showModelGuide = FALSE
    /\ showCompletionOverlay = FALSE
    /\ agTimer = FALSE
    /\ ackedClosed = FALSE
    /\ lockTrace = <<>>

NextLockstep ==
    LockstepToggle

SpecLockstep == InitLockstep /\ [][NextLockstep]_vars

\* Step 1 of the modal, freshly mounted for one of the recalls
InitCarousel ==
    /\ InitOther
    /\ selectedRecall \in Recalls
    /\ showSuccessBanner = FALSE
    /\ successTimestamp = -1
    /\ currentStep = 1
    /\ slideDirection = "forward"
    /\ effectPending = FALSE
    /\ checkedSteps = <<>>
    /\ pendingClose = [s \in Sessions |-> 0]
    /\ now = 0
    /\ session = 1
    /\ naToasts = [s \in Sessions |-> 0]
    /\ naCloseCalls = [s \in Sessions |-> 0]
    /\ resolvedLog = <<>>
    /\ lastEvent = "effect"
    /\ openMissing = FALSE
    /\ pendingShares = 0
    /\ agCheckedSteps = <<"step1">>
    /\ showModelGuide = FALSE
    /\ showCompletionOverlay = FALSE
    /\ agTimer = FALSE
    /\ ackedClosed = FALSE
    /\ lockTrace = <<>>

NextCarousel ==
    \/ TouchStart
    \/ TouchMove
    \/ TouchEnd
    \/ DotClick

SpecCarousel == InitCarousel /\ [][NextCarousel]_vars

NextAssistant ==
    \/ AiInputChange
    \/ AiEnter
    \/ AiSendButton
    \/ AiSuggestion
    \/ AiResponseTimer

SpecAssistant == Init /\ [][NextAssistant]_vars

NextSimulation ==
    \/ SimOpenChange
    \/ SimReset
    \/ SimAddAction
    \/ SimRemoveAction
    \/ SimActionChange
    \/ SimPreview

SpecSimulation == Init /\ [][NextSimulation]_vars

TypeOK ==
    /\ selectedRecall \in Recalls \cup {NoRecall}
    /\ showSuccessBanner \in BOOLEAN
    /\ currentStep \in Steps
    /\ slideDirection \in {"forward", "backward"}
    /\ effectPending \in BOOLEAN
    /\ session \in 0..MaxSessions

\* ---- the transition table of the flow ----
TransitionTable == {<<1, 2>>, <<2, 3>>, <<2, 1>>, <<3, 2>>}

C2_ProceedGated ==
    [][/\ (lastEvent' = "markAsDone" /\ ~allStepsComplete) =>
            (currentStep' = 2 /\ checkedSteps' = checkedSteps)
       /\ (currentStep' = 3 /\ currentStep # 3) =>
            (Step2Rendered /\ allStepsComplete)]_vars

\* Mark as Done was pressed with N-1 of N items checked and was rejected.
C2_Witness ==
    /\ lastEvent = "markAsDone"
    /\ Step2Rendered
    /\ Len(checkedSteps) = totalSteps - 1

\* C3: the orchestrator's Step-2-complete handler does not move currentStep
\* to 3 when it is invoked while the checklist is incomplete.
C3_OrchestratorGate ==
    [][(isOpen /\ currentStep = 2 /\ ~allStepsComplete)
          => currentStep' # 3]_vars

\* C4: whenever the flow is opened, the new session starts at currentStep 1
\* with direction forward, whatever step the previous session ended on.
C4_OpenStartsAtStep1 ==
    [][(~isOpen /\ isOpen')
          => (currentStep' = 1 /\ slideDirection' = "forward")]_vars

\* C5: in every Step 2 state the first checklist item is checked (it is
\* pre-checked on entry and toggling it changes nothing).
C5_LockedFirstItem ==
    Step2Rendered => includes(checkedSteps, 1)

\* C6: a session in which "No" was pressed produces exactly one
\* not-applicable notification and at most one close call to the parent, also
\* when "No" is pressed again before the delayed close fires, and never the
\* resolved callback.
C6_NotApplicableOnce ==
    \A s \in Sessions :
        /\ naToasts[s] <= 1
        /\ naCloseCalls[s] <= 1
        /\ naToasts[s] > 0 =>
             \A i \in 1..Len(resolvedLog) : resolvedLog[i].session # s

\* C7: once "No" has been pressed in a session, that session never shows
\* Step 2 or Step 3.
C7_DeclinedNeverAdvances ==
    (isOpen /\ naToasts[session] > 0) => currentStep \notin {2, 3}

\* C8: resolved is emitted only by finish() on Step 3, at most once per
\* session, and carries the id of the session's recall and a timestamp.
C8_ResolvedCarriesRecallId ==
    \A i \in 1..Len(resolvedLog) :
        /\ resolvedLog[i].step = 3
        /\ \A j \in 1..Len(resolvedLog) :
             resolvedLog[j].session = resolvedLog[i].session => j = i
        /\ Len(resolvedLog[i].args) = 2
        /\ resolvedLog[i].args[1] = resolvedLog[i].recall

\* C9: an external close, from whichever step, closes the flow and emits
\* neither the resolved/success callback nor a not-applicable notification.
C9_ExternalCloseSilent ==
    [][lastEvent' = "externalClose" =>
          /\ ~isOpen'
          /\ resolvedLog' = resolvedLog
          /\ showSuccessBanner' = showSuccessBanner
          /\ naToasts' = naToasts
          /\ naCloseCalls' = naCloseCalls]_vars

\* The flow was closed from Step 3 by the X button, no banner shown.
C9_Witness ==
    /\ lastEvent = "externalClose"
    /\ ~isOpen
    /\ currentStep = 3
    /\ ~showSuccessBanner
    /\ resolvedLog = <<>>

\* C10: in every Step 3 state the back() action is available (and takes the
\* flow to Step 2 with direction backward).
C10_BackFromStep3 ==
    Step3Rendered => ENABLED Step3Back

\* the set of items a checklist holds
checkedSet(checked) == {checked[i] : i \in 1..Len(checked)}

\* C11: after back() from a partially checked Step 2 and confirm(true) again,
\* Step 2 starts with the locked item checked and all others unchecked.
C11_BackResetsToEntryState ==
    [][(lastEvent = "backPartial" /\ lastEvent' = "yes") =>
          /\ Step2Rendered'
          /\ checkedSet(checkedSteps') = {1}]_vars

\* C12: after open, confirm(true) and the toggles of the two items that
\* follow the first one, proceed() is accepted and the flow is on Step 3.
C12_ScenarioExecutable ==
    [][(Step2Rendered /\ checkedSteps = <<2, 3>> /\ lastEvent' = "markAsDone") =>
          currentStep' = 3]_vars

C14_OrderIndependent ==
    Step2Rendered =>
        (allStepsComplete <=> checkedSet(checkedSteps) = steps(selectedRecall))

\* All items are acknowledged, the first one last.
C14_Witness ==
    /\ Step2Rendered
    /\ checkedSteps = <<3, 2, 1>>
    /\ allStepsComplete

\* C15: every transition sets the direction of the transition table: forward
\* after 1->2, 2->3 and on (re)open, backward after 2->1 and 3->2.
C15_DirectionFollowsTable ==
    [][/\ (currentStep = 1 /\ currentStep' = 2) => slideDirection' = "forward"
       /\ (currentStep = 2 /\ currentStep' = 3) => slideDirection' = "forward"
       /\ (lastEvent' \in {"back", "backPartial"}) => slideDirection' = "backward"
       /\ (currentStep = 3 /\ currentStep' = 2) => slideDirection' = "backward"
       /\ (~isOpen /\ isOpen') => slideDirection' = "forward"]_vars

\* C16: save-progress and share(), at their start and when they settle with
\* whatever outcome, change neither the step nor the checklist, do not close
\* the flow and emit no resolved event.
C16_ExternalActionsFrame ==
    [][lastEvent' \in {"save", "share"} \cup ShareOutcomes =>
          UNCHANGED <<currentStep, slideDirection, checkedSteps,
                      selectedRecall, openMissing, showSuccessBanner,
                      successTimestamp, resolvedLog>>]_vars

\* A share fails after the flow has been closed.
C16_Witness ==
    /\ lastEvent \in {"failed", "copyFailed"}
    /\ ~isOpen
    /\ session >= 1

\* C17: a flow that is open without a recall record shows Step 1, and the
\* confirm transition is available.
C17_MissingRecordShowsStep1 ==
    (openMissing /\ ~effectPending) =>
        /\ currentStep = 1
        /\ ENABLED Step1Yes

\* C18: whenever Step 2 is entered, the checklist holds no acknowledgement,
\* whatever was acknowledged in an earlier session.
C18_SessionsIndependent ==
    [][(~Step2Rendered /\ Step2Rendered') =>
          checkedSteps' = <<>>]_vars

\* Step 2 of the second session, after a session that was closed with
\* acknowledged items.
C18_Witness ==
    /\ session = 2
    /\ ackedClosed
    /\ Step2Rendered
    /\ lastEvent = "yes"

\* C19: after every toggle of the common sequence, both checklists hold the
\* same items and give the same verdict.
C19_SameChecklist ==
    Len(lockTrace) >= 1 =>
        /\ {AgIdOf(id) : id \in checkedSet(checkedSteps)}
              = checkedSet(agCheckedSteps)
        /\ allStepsComplete <=> agAllComplete

\* C20: 'step1' is checked in every state of ActionGuideScreen, and
\* toggleStep('step1') leaves checkedSteps unchanged.
C20_Step1Locked ==
    /\ []includes(agCheckedSteps, "step1")
    /\ [][lastEvent' = "agToggle1" => agCheckedSteps' = agCheckedSteps]_vars

\* toggleStep('step1') was called with every step checked.
C20_Witness ==
    /\ lastEvent = "agToggle1"
    /\ agAllComplete
    /\ includes(agCheckedSteps, "step1")

\* C21: at most one navigation timer is pending at any time, also when one
\* event handler calls navigateToScreen twice.
C21_OneNavigationPending ==
    Len(navTimers) <= 1

\* C28: onResolved is invoked only while all three steps are checked, and
\* the handler that invokes it invokes onClose right after it.
C28_ResolvedThenClose ==
    [][(lastEvent' \in {"agFinish", "agClose"}
            /\ includes(agCallbacks', "onResolved")) =>
          /\ agMounted
          /\ agAllComplete
          /\ agCallbacks' = <<"onResolved", "onClose">>]_vars

\* The finish button of the completion overlay was pressed.
C28_Witness ==
    /\ lastEvent = "agFinish"
    /\ agCallbacks = <<"onResolved", "onClose">>
    /\ agAllComplete

\* C22: a shown banner is eventually hidden again, and the 3 s timer is
\* pending only while the banner is shown, so a dismissed banner leaves no
\* timer that could hide a later one.
C22_BannerAutoDismisses ==
    /\ showSuccessBanner ~> ~showSuccessBanner
    /\ [](bannerTimer => showSuccessBanner)

\* The banner was dismissed by hand and its timer is cancelled.
C22_Witness ==
    /\ lastEvent = "dismissBanner"
    /\ ~showSuccessBanner
    /\ ~bannerTimer
    /\ Len(resolvedLog) >= 1

\* the index the claim gives after a swipe from touchStart to touchEnd
swipeResult ==
    IF touchStart - touchEnd > minSwipeDistance
       /\ currentImageIndex < imagesLength(selectedRecall) - 1
    THEN currentImageIndex + 1
    ELSE IF touchEnd - touchStart > minSwipeDistance /\ currentImageIndex > 0
         THEN currentImageIndex - 1
         ELSE currentImageIndex

\* C23: the image index stays within 0..images.length - 1 (at most three
\* images), and a swipe moves it by +1 (left, more than 50 px, next image
\* exists), by -1 (right, more than 50 px, previous image exists) or not.
C23_CarouselIndex ==
    [][/\ imagesLength(selectedRecall) <= 3
       /\ currentImageIndex' \in 0..(imagesLength(selectedRecall) - 1)
       /\ (lastEvent' = "touchEnd" /\ touchEnd # NoTouch) =>
             currentImageIndex' = swipeResult]_vars

\* C24: a toggle of item i flips i and leaves every other item as it was,
\* and a second toggle of i gives back the set of checked items.
C24_ToggleInvolution ==
    [][lastEvent' = "toggle" =>
          \E i \in StepIds :
              /\ includes(checkedSteps', i) # includes(checkedSteps, i)
              /\ \A j \in StepIds \ {i} :
                    includes(checkedSteps', j) = includes(checkedSteps, j)
              /\ checkedSet(toggleStep(checkedSteps', i))
                    = checkedSet(checkedSteps)]_vars

\* The only checked item was toggled again: nothing is checked.
C24_Witness ==
    /\ Step2Rendered
    /\ lastEvent = "toggle"
    /\ checkedSteps = <<>>

\* C25: checkedSteps holds no id twice and only ids of the fixed steps, so
\* its length is totalSteps exactly when every step is checked.
C25_NoDuplicates ==
    /\ \A i, j \in 1..Len(checkedSteps) :
          checkedSteps[i] = checkedSteps[j] => i = j
    /\ checkedSet(checkedSteps) \subseteq StepIds
    /\ (Len(checkedSteps) = totalSteps) <=>
          (\A id \in StepIds : includes(checkedSteps, id))

\* Every step is checked, after a toggle.
C25_Witness ==
    /\ Step2Rendered
    /\ lastEvent = "toggle"
    /\ Len(checkedSteps) = totalSteps

\* C26: the delayed close of confirm(false) closes only the session in which
\* 'No' was pressed: a timer that fires while a session is open was
\* scheduled in that session.
C26_TimerClosesOwnSession ==
    [][(lastEvent' = "closeTimer" /\ isOpen) =>
          naCloseCalls'[session] = naCloseCalls[session] + 1]_vars

\* C27: the banner becomes visible only by finish(), and every finish()
\* shows the banner and clears selectedRecall in the same step.
C27_BannerOnlyByFinish ==
    [][/\ (showSuccessBanner' /\ ~showSuccessBanner) => lastEvent' = "finish"
       /\ lastEvent' \in {"externalClose", "closeTimer", "no"} =>
             showSuccessBanner' = showSuccessBanner
       /\ lastEvent' = "finish" =>
             (showSuccessBanner' /\ selectedRecall' = NoRecall)]_vars

\* finish() was pressed in a session in which 'No' had been pressed before.
C27_Witness ==
    /\ lastEvent = "finish"
    /\ showSuccessBanner
    /\ ~recallPresent
    /\ naToasts[session] >= 1

\* C29: isTyping is true exactly while a response is pending, every accepted
\* user message gets exactly one AI message, and blank input appends none.
C29_TypingWhilePending ==
    /\ isTyping <=> aiTimers > 0
    /\ userMessages = aiMessages + aiTimers

\* C30: the actions list of the panel, and every list handed to onPreview,
\* has at least one entry.
C30_ActionsNonEmpty ==
    /\ Len(simActions) >= 1
    /\ \A n \in simPreviewed : n >= 1

\* A list reduced to one action was handed to onPreview.
C30_Witness ==
    /\ lastEvent = "simPreview"
    /\ Len(simActions) = 1
    /\ 1 \in simPreviewed

====
